---- MODULE Spec2Model ----
(***************************************************************************)
(* A model of face_tagger/face_tagger.py: the file scanner, the            *)
(* known-people index with its pickle cache, the matcher, the process-pool *)
(* orchestrator and the exiftool metadata writer.                          *)
(*                                                                         *)
(* Face encodings are integers and face_distance is the absolute           *)
(* difference; tolerances are integers on the same scale.  A path is a     *)
(* sequence of components, each a record of the base name and the          *)
(* extension that os.path.splitext would separate.                         *)
(***************************************************************************)
EXTENDS Integers, Sequences, FiniteSets, TLC

VARIABLES
    fs,                    \* the filesystem: path -> entry
    cache,                 \* cache.pkl of the reference folder
    known_names,           \* scan_known_people's first return value
    known_face_encodings,  \* scan_known_people's second return value
    log,                   \* the records logged by the last operation
    cache_written,         \* the last scan_known_people opened cache.pkl "wb"
    last_op,               \* the last operation that ran
    prev_index,            \* what the scan_known_people before the last returned
    changes,               \* how many times the reference folder was changed
    before,                \* cache.pkl as the last scan_known_people found it
    tolerance,             \* the --tolerance argument
    recognized_people,     \* the list analyze_file returned
    metadata,              \* the tags of every input file
    exif_calls,            \* the exiftool invocations made so far
    files,                 \* main's files argument, which scan_files extends
    futures,               \* the futures of the pool, in submission order
    pc,                    \* where main is
    pos,                   \* the pair of zip(futures, paths) main handles next
    paths,                 \* what the second scan_files(files) returned
    error,                 \* the exception that left main, if any
    handled,               \* the pairs of zip(futures, paths) main has handled
    finish_order,          \* the futures' indices in the order they finished
    scans                  \* the lists the scan_files calls returned, in call order

vars == <<fs, cache, known_names, known_face_encodings, log, cache_written,
          last_op, prev_index, changes, before, tolerance, recognized_people,
          metadata, exif_calls, files, futures, pc, pos, paths, error,
          handled, finish_order, scans>>

batchvars == <<metadata, exif_calls, files, futures, pc, pos, paths, error,
               handled, finish_order, scans>>

(***************************************************************************)
(* Bounds of the model.                                                    *)
(***************************************************************************)
MaxSize == 2        \* file sizes are 1..MaxSize bytes
MaxCache == 3       \* scan_known_people runs while the cache has fewer entries
MaxChanges == 3     \* changes made to the reference folder in one behaviour
MaxEnc == 2         \* the matcher's face encodings are 1..MaxEnc
MaxFaces == 2       \* faces detected in one analysed frame
MaxKnown == 2       \* entries of the index the matcher is given
MaxLabels == 3      \* labels of a result handed to the reconciliation
MaxRuns == 2        \* times the same result is reconciled
MaxScans == 2       \* scan_files calls on the same list
Workers == 2        \* worker processes of the pool

(***************************************************************************)
(* Module constants, lines 27-37.                                          *)
(***************************************************************************)
IMAGE_EXTENSIONS == <<"jpeg", "jpg", "png">>
VIDEO_EXTENSIONS == <<"mp4", "avi", "mkv", "mov">>
ALLOWED_EXTENSIONS == IMAGE_EXTENSIONS \o VIDEO_EXTENSIONS
TOP_KEYWORD == "Personen"

Range(s) == {s[i] : i \in 1..Len(s)}

(***************************************************************************)
(* Paths.                                                                  *)
(***************************************************************************)
Comp(b, e) == [base |-> b, ext |-> e]
Parent(p) == SubSeq(p, 1, Len(p) - 1)
Leaf(p) == p[Len(p)]

RefDir == <<Comp("ref", "")>>
AliceJpg == RefDir \o <<Comp("alice", "jpg")>>
BobJpg == RefDir \o <<Comp("bob", "jpg")>>
InDir == <<Comp("in", "")>>
GroupJpg == InDir \o <<Comp("group", "jpg")>>
PartyPng == InDir \o <<Comp("party", "png")>>
ClipMp4 == InDir \o <<Comp("clip", "mp4")>>
UpperJpg == InDir \o <<Comp("upper", "JPG")>>
NotesTxt == InDir \o <<Comp("notes", "txt")>>
SubDir == InDir \o <<Comp("sub", "")>>
NestedPng == SubDir \o <<Comp("nested", "png")>>
DeepDir == SubDir \o <<Comp("deep", "")>>
FarJpg == DeepDir \o <<Comp("far", "jpg")>>

\* The order in which a directory listing yields the paths of the model.
PathOrder == <<RefDir, AliceJpg, BobJpg, InDir, GroupJpg, PartyPng, ClipMp4,
               UpperJpg, NotesTxt, SubDir, NestedPng, DeepDir, FarJpg>>
Paths == Range(PathOrder)
InputFiles == {GroupJpg, PartyPng, ClipMp4}

\* An entry of the filesystem.  dec says whether the decoder can read the
\* file: an image PIL can open, a video with a first frame.
NoEntry == [kind |-> "none", size |-> 0, faces |-> <<>>, dec |-> "ok"]
DirEntry == [kind |-> "dir", size |-> 0, faces |-> <<>>, dec |-> "ok"]
FileEntry(sz, fc) == [kind |-> "file", size |-> sz, faces |-> fc, dec |-> "ok"]
BadFileEntry(sz) == [kind |-> "file", size |-> sz, faces |-> <<>>, dec |-> "bad"]

\* What face_encodings returns for the reference images of the model: no
\* face, one face (of two different people) or two faces.
Contents == {<<>>, <<1>>, <<2>>, <<1, 2>>}

isdir(F, p) == p \in DOMAIN F /\ F[p].kind = "dir"
isfile(F, p) == p \in DOMAIN F /\ F[p].kind = "file"

(***************************************************************************)
(* glob.glob(os.path.join(d, "*.ext")) and glob.glob(os.path.join(d,       *)
(* "**/*.ext")): glob is called without recursive=True, so "**" matches    *)
(* one directory level.  The pattern matches files and directories alike,  *)
(* and the extension as spelled.                                           *)
(***************************************************************************)
GlobDirect(F, d, ext) ==
    LET Hit(p) == /\ F[p].kind # "none"
                  /\ Len(p) = Len(d) + 1
                  /\ Parent(p) = d
                  /\ Leaf(p).ext = ext
    IN SelectSeq(PathOrder, Hit)

GlobNested(F, d, ext) ==
    LET Hit(p) == /\ F[p].kind # "none"
                  /\ Len(p) = Len(d) + 2
                  /\ Parent(Parent(p)) = d
                  /\ isdir(F, Parent(p))
                  /\ Leaf(p).ext = ext
    IN SelectSeq(PathOrder, Hit)

RECURSIVE GlobAll(_, _, _)
GlobAll(F, d, k) ==
    IF k > Len(ALLOWED_EXTENSIONS) THEN <<>>
    ELSE GlobDirect(F, d, ALLOWED_EXTENSIONS[k])
           \o GlobNested(F, d, ALLOWED_EXTENSIONS[k])
           \o GlobAll(F, d, k + 1)

(***************************************************************************)
(* scan_files, lines 76-109.  The loop iterates over the list it extends,  *)
(* so the appended paths are visited by the same loop.  The result holds   *)
(* the returned filenames and the caller's list as the call leaves it.     *)
(***************************************************************************)
RECURSIVE scan_loop(_, _, _, _)
scan_loop(F, file_list, i, filenames) ==
    IF i > Len(file_list) THEN [filenames |-> filenames, files |-> file_list]
    ELSE IF isdir(F, file_list[i])
         THEN scan_loop(F, file_list \o GlobAll(F, file_list[i], 1), i + 1, filenames)
    ELSE IF ~isfile(F, file_list[i])
         THEN scan_loop(F, file_list, i + 1, filenames)
    ELSE scan_loop(F, file_list, i + 1, Append(filenames, file_list[i]))

scan_files(F, file_list) == scan_loop(F, file_list, 1, <<>>)

(***************************************************************************)
(* scan_known_people, lines 187-252.  The cache file is absent, unreadable *)
(* by pickle, or the pickled triple of parallel lists.                     *)
(***************************************************************************)
NoCache == [state |-> "missing", names |-> <<>>, encodings |-> <<>>, sizes |-> <<>>]
BadCache == [state |-> "corrupt", names |-> <<>>, encodings |-> <<>>, sizes |-> <<>>]
Pickled(n, e, s) == [state |-> "ok", names |-> n, encodings |-> e, sizes |-> s]

\* known_names.index(basename) if basename in known_names else -1, one-based
\* with 0 for "not in the list".
RECURSIVE index_from(_, _, _)
index_from(names, basename, i) ==
    IF i > Len(names) THEN 0
    ELSE IF names[i] = basename THEN i
    ELSE index_from(names, basename, i + 1)

index_of(names, basename) == index_from(names, basename, 1)

\* face_recognition.face_encodings(load_image_file(file_path))
face_encodings(F, file_path) == F[file_path].faces

Logged(m, p) == [msg |-> m, file |-> p]

\* Lines 232-242: what one freshly encoded reference file adds to the lists.
add_encoding(st, basename, encodings, filesize_bytes, file_path) ==
    IF Len(encodings) > 1
    THEN [st EXCEPT !.dirty = TRUE,
                    !.log = @ \o <<Logged("encode", file_path),
                                   Logged("more than one face", file_path)>>]
    ELSE IF encodings = <<>>
    THEN [st EXCEPT !.dirty = TRUE,
                    !.log = @ \o <<Logged("encode", file_path),
                                   Logged("no faces", file_path)>>]
    ELSE [st EXCEPT !.dirty = TRUE,
                    !.names = Append(@, basename),
                    !.encodings = Append(@, encodings[1]),
                    !.sizes = Append(@, filesize_bytes),
                    !.log = Append(@, Logged("encode", file_path))]

\* Mutant of cache_hit: the size of the file is not compared.
cache_hit_by_name(st, basename, filesize_bytes) ==
    index_of(st.names, basename) # 0

\* Lines 222-223: the cache holds the file under its name with its size.
cache_hit(st, basename, filesize_bytes) ==
    LET idx == index_of(st.names, basename)
    IN idx # 0 /\ filesize_bytes = st.sizes[idx]

\* Lines 218-242: the loop over the reference files.
RECURSIVE index_loop(_, _, _, _)
index_loop(F, known_people_files, i, st) ==
    IF i > Len(known_people_files) THEN st
    ELSE LET file_path == known_people_files[i]
             basename == Leaf(file_path).base
             filesize_bytes == F[file_path].size
         IN IF cache_hit(st, basename, filesize_bytes)
            THEN index_loop(F, known_people_files, i + 1,
                            [st EXCEPT !.log = Append(@, Logged("cached", file_path))])
            ELSE index_loop(F, known_people_files, i + 1,
                            add_encoding(st, basename, face_encodings(F, file_path),
                                         filesize_bytes, file_path))

\* Lines 243-245: the condition under which cache.pkl is rewritten.
must_write(st, known_people_files) ==
    st.dirty \/ Len(known_people_files) # Len(st.names)

\* The whole call: what it returns, what it leaves in cache.pkl, what it logs.
\* pickle.load of an unreadable cache raises, and only FileNotFoundError is
\* caught (lines 208-215).
scan_known_people(F, c, known_people_folder) ==
    IF c.state = "corrupt"
    THEN [raised |-> TRUE, names |-> <<>>, encodings |-> <<>>, cache |-> c,
          written |-> FALSE, log |-> <<>>]
    ELSE LET known_people_files == scan_files(F, <<known_people_folder>>).filenames
             st == index_loop(F, known_people_files, 1,
                              [names |-> c.names, encodings |-> c.encodings,
                               sizes |-> c.sizes, dirty |-> FALSE, log |-> <<>>])
             write == must_write(st, known_people_files)
         IN [raised |-> FALSE, names |-> st.names, encodings |-> st.encodings,
             cache |-> IF write THEN Pickled(st.names, st.encodings, st.sizes) ELSE c,
             written |-> write, log |-> st.log]

(***************************************************************************)
(* add_metadata and exiftool_write, lines 40-73 and 255-269.               *)
(***************************************************************************)
\* f"{TOP_KEYWORD}|{person}": a hierarchical value is the sequence of its
\* levels, the bare TOP_KEYWORD the sequence of one level.
Hierarchical(person) == <<TOP_KEYWORD, person>>

\* Mutant of add_metadata: TOP_KEYWORD is not appended to the flat list.
add_metadata_without_top(people) ==
    [hierarchical_metadata |->
         [i \in 1..Len(people) |-> Hierarchical(people[i])] \o <<<<TOP_KEYWORD>>>>,
     metadata |-> people]

\* Lines 265-269: the two lists handed to exiftool_write.
add_metadata(people) ==
    [hierarchical_metadata |->
         [i \in 1..Len(people) |-> Hierarchical(people[i])] \o <<<<TOP_KEYWORD>>>>,
     metadata |-> people \o <<TOP_KEYWORD>>]

NoTags == [Keywords |-> <<>>, HierarchicalSubject |-> <<>>, Subject |-> <<>>]

\* Lines 63-67: -Keywords+=, -HierarchicalSubject+= and -Subject+= append
\* every value given to the field's list.
exiftool_write(tags, hierarchical_metadata, metadata_list) ==
    [Keywords |-> tags.Keywords \o metadata_list,
     HierarchicalSubject |-> tags.HierarchicalSubject \o hierarchical_metadata,
     Subject |-> tags.Subject \o metadata_list]

(***************************************************************************)
(* The body of main's second loop, lines 300-331, for one result.          *)
(***************************************************************************)
\* list.remove(x): the list without the first x.
RECURSIVE remove(_, _)
remove(seq, x) ==
    IF seq = <<>> THEN <<>>
    ELSE IF Head(seq) = x THEN Tail(seq)
    ELSE <<Head(seq)>> \o remove(Tail(seq), x)

Occurrences(seq, x) == Cardinality({i \in 1..Len(seq) : seq[i] = x})

\* Mutant of strip_unknown: one "unknown_person" is removed, not all.
strip_unknown_once(people) == remove(people, "unknown_person")

\* Lines 317-320: while the list counts an "unknown_person", remove one.
RECURSIVE strip_unknown(_)
strip_unknown(people) ==
    IF Occurrences(people, "unknown_person") # 0
    THEN strip_unknown(remove(people, "unknown_person"))
    ELSE people

\* Lines 306-310: the result names somebody, recognized or not.
has_people(people) ==
    /\ people # <<>>
    /\ "no_people_found" \notin Range(people)
    /\ "warning:" \notin Range(people)

\* What the body decides for one result: whether add_metadata is called and
\* with which list, and what is logged.
reconcile(file_path, people) ==
    IF has_people(people)
    THEN LET unknown == Occurrences(people, "unknown_person")
             warned == IF unknown # 0
                       THEN <<[msg |-> "unknown person(s) detected",
                               count |-> unknown, file |-> file_path]>>
                       ELSE <<>>
             stripped == IF unknown # 0 THEN strip_unknown(people) ELSE people
         IN [write |-> stripped # <<>>, people |-> stripped, log |-> warned]
    ELSE IF "warning:" \in Range(people)
    THEN [write |-> FALSE, people |-> people,
          log |-> <<[msg |-> "Warning during processing", count |-> 0,
                     file |-> file_path]>>]
    ELSE [write |-> FALSE, people |-> people,
          log |-> <<[msg |-> "No person identified", count |-> 0,
                     file |-> file_path]>>]

\* One exiftool invocation as the model records it: the file, the two lists,
\* the Keywords the file held, whether exiftool succeeded, and the position
\* of the result in the batch.
Call(file_path, args, tags, ok, k) ==
    [file |-> file_path, hierarchical_metadata |-> args.hierarchical_metadata,
     metadata |-> args.metadata, had |-> tags.Keywords, ok |-> ok, pos |-> k]

\* No batch has run: the state of the orchestrator before main is called.
NoBatch ==
    /\ metadata = [p \in InputFiles |-> NoTags]
    /\ exif_calls = <<>>
    /\ files = <<>>
    /\ futures = <<>>
    /\ pc = "start"
    /\ pos = 1
    /\ paths = <<>>
    /\ error = "none"
    /\ handled = <<>>
    /\ finish_order = <<>>
    /\ scans = <<>>

(***************************************************************************)
(* The index builder run again and again over a changing reference folder. *)
(***************************************************************************)
NoIndex == [names |-> <<"-">>, encodings |-> <<>>]

RefFiles == {AliceJpg, BobJpg}

InitIndex ==
    /\ fs = [p \in Paths |-> IF p = RefDir THEN DirEntry ELSE NoEntry]
    /\ cache = NoCache
    /\ known_names = <<>>
    /\ known_face_encodings = <<>>
    /\ log = <<>>
    /\ cache_written = FALSE
    /\ last_op = "init"
    /\ prev_index = NoIndex
    /\ changes = 0
    /\ before = NoCache
    /\ tolerance = 0
    /\ recognized_people = <<>>
    /\ NoBatch

\* A change of the reference folder between two runs of the program.
Touched ==
    /\ changes < MaxChanges
    /\ changes' = changes + 1
    /\ known_names' = <<>>
    /\ known_face_encodings' = <<>>
    /\ log' = <<>>
    /\ cache_written' = FALSE
    /\ last_op' = "fs"
    /\ prev_index' = NoIndex
    /\ before' = NoCache
    /\ UNCHANGED <<tolerance, recognized_people, batchvars>>

AddReference ==
    \E p \in RefFiles, sz \in 1..MaxSize, fc \in Contents :
        /\ fs[p].kind = "none"
        /\ fs' = [fs EXCEPT ![p] = FileEntry(sz, fc)]
        /\ UNCHANGED cache
        /\ Touched

ChangeReference ==
    \E p \in RefFiles, sz \in 1..MaxSize, fc \in Contents :
        /\ fs[p].kind = "file"
        /\ FileEntry(sz, fc) # fs[p]
        /\ fs' = [fs EXCEPT ![p] = FileEntry(sz, fc)]
        /\ UNCHANGED cache
        /\ Touched

RemoveReference ==
    \E p \in RefFiles :
        /\ fs[p].kind = "file"
        /\ fs' = [fs EXCEPT ![p] = NoEntry]
        /\ UNCHANGED cache
        /\ Touched

DeleteCache ==
    /\ cache.state # "missing"
    /\ cache' = NoCache
    /\ UNCHANGED fs
    /\ Touched

CorruptCache ==
    /\ cache.state = "ok"
    /\ cache' = BadCache
    /\ UNCHANGED fs
    /\ Touched

BuildIndex ==
    LET r == scan_known_people(fs, cache, RefDir)
    IN /\ Len(cache.names) < MaxCache
       /\ cache' = r.cache
       /\ cache_written' = r.written
       /\ log' = r.log
       /\ last_op' = IF r.raised THEN "raised" ELSE "scan_known_people"
       /\ known_names' = IF r.raised THEN known_names ELSE r.names
       /\ known_face_encodings' = IF r.raised THEN known_face_encodings ELSE r.encodings
       /\ prev_index' = IF last_op = "scan_known_people"
                        THEN [names |-> known_names, encodings |-> known_face_encodings]
                        ELSE NoIndex
       /\ before' = cache
       /\ UNCHANGED <<fs, changes, tolerance, recognized_people, batchvars>>

NextIndex ==
    \/ AddReference
    \/ ChangeReference
    \/ RemoveReference
    \/ DeleteCache
    \/ CorruptCache
    \/ BuildIndex

SpecIndex == InitIndex /\ [][NextIndex]_vars

(***************************************************************************)
(* Properties of the index builder.                                        *)
(***************************************************************************)
Built == last_op = "scan_known_people"

LiveRefs == {p \in RefFiles : fs[p].kind = "file"}

\* The reference files whose name the cache held with another size, or with
\* the size the file has, when the last build started.
Stale(c) ==
    {p \in LiveRefs : LET idx == index_of(c.names, Leaf(p).base)
                      IN idx # 0 /\ c.sizes[idx] # fs[p].size}

Fresh(c) ==
    {p \in LiveRefs : LET idx == index_of(c.names, Leaf(p).base)
                      IN idx # 0 /\ c.sizes[idx] = fs[p].size}

Encoded == {p \in RefFiles : Logged("encode", p) \in Range(log)}

\* C1: two builds in a row over an unchanged reference folder return the
\* same names and encodings, and the second build does not write cache.pkl.
C1_RebuildIsStable ==
    (Built /\ prev_index # NoIndex) =>
        /\ known_names = prev_index.names
        /\ known_face_encodings = prev_index.encodings
        /\ ~cache_written

\* C2: when the cache holds exactly one reference file with a size other
\* than the file's, the build encodes that file again and rewrites cache.pkl;
\* every entry under another name stays where it was with its encoding and
\* size, no file the cache holds with its current size is encoded, and if
\* all the other reference files are such files, that file is the only one
\* encoded.
C2_OnlyTheChangedFileIsEncoded ==
    (Built /\ Cardinality(Stale(before)) = 1) =>
        LET f == CHOOSE p \in Stale(before) : TRUE
        IN /\ f \in Encoded
           /\ cache_written
           /\ cache.state = "ok"
           /\ Len(cache.names) >= Len(before.names)
           /\ \A i \in 1..Len(before.names) :
                  before.names[i] # Leaf(f).base =>
                      /\ cache.names[i] = before.names[i]
                      /\ cache.encodings[i] = before.encodings[i]
                      /\ cache.sizes[i] = before.sizes[i]
           /\ Encoded \cap Fresh(before) = {}
           /\ (LiveRefs = Fresh(before) \cup {f} => Encoded = {f})

\* One file changed its size, the other is cached with its current size, and
\* the build has run.
C2_Witness ==
    /\ Built
    /\ Cardinality(Stale(before)) = 1
    /\ Cardinality(Fresh(before)) = 1
    /\ Cardinality(Encoded) = 1

(***************************************************************************)
(* analyze_file, lines 112-184.                                            *)
(***************************************************************************)
\* str.lower() on the extensions of the model.
Lower(e) ==
    CASE e = "JPG" -> "jpg"
      [] e = "PNG" -> "png"
      [] e = "MP4" -> "mp4"
      [] OTHER -> e

Abs(x) == IF x < 0 THEN 0 - x ELSE x

\* face_recognition.face_distance(known_face_encodings, unknown_encoding)
face_distance(encodings, unknown_encoding) ==
    [i \in 1..Len(encodings) |-> Abs(encodings[i] - unknown_encoding)]

\* Mutant of is_match: the comparison is turned round.
is_match_flipped(distance, tol) == distance >= tol

\* Line 171: one element of distances <= tolerance.
is_match(distance, tol) == distance <= tol

\* Line 175: [name for is_match, name in zip(result, known_names) if is_match]
RECURSIVE matched_names(_, _, _)
matched_names(result, names, i) ==
    IF i > Len(result) \/ i > Len(names) THEN <<>>
    ELSE (IF result[i] THEN <<names[i]>> ELSE <<>>)
           \o matched_names(result, names, i + 1)

\* Mutant of match_face: only the first name within the tolerance is kept.
match_face_first(names, encodings, unknown_encoding, tol) ==
    LET distances == face_distance(encodings, unknown_encoding)
        result == [i \in 1..Len(distances) |-> is_match(distances[i], tol)]
    IN IF TRUE \in Range(result)
       THEN <<matched_names(result, names, 1)[1]>>
       ELSE <<"unknown_person">>

\* Mutant of match_face: a face without a match adds no label.
match_face_silent(names, encodings, unknown_encoding, tol) ==
    LET distances == face_distance(encodings, unknown_encoding)
        result == [i \in 1..Len(distances) |-> is_match(distances[i], tol)]
    IN IF TRUE \in Range(result)
       THEN matched_names(result, names, 1)
       ELSE <<>>

\* Lines 168-178: the labels one detected face adds.
match_face(names, encodings, unknown_encoding, tol) ==
    LET distances == face_distance(encodings, unknown_encoding)
        result == [i \in 1..Len(distances) |-> is_match(distances[i], tol)]
    IN IF TRUE \in Range(result)
       THEN matched_names(result, names, 1)
       ELSE <<"unknown_person">>

\* Lines 167-178: the loop over the detected faces.
RECURSIVE match_faces(_, _, _, _, _)
match_faces(names, encodings, unknown_encodings, tol, i) ==
    IF i > Len(unknown_encodings) THEN <<>>
    ELSE match_face(names, encodings, unknown_encodings[i], tol)
           \o match_faces(names, encodings, unknown_encodings, tol, i + 1)

\* Mutant of no_faces: a frame without faces is labelled like an unmatched
\* face.
no_faces_as_unknown(unknown_encodings) ==
    IF unknown_encodings = <<>> THEN <<"unknown_person">> ELSE <<>>

\* Lines 180-182: no face found in the frame.
no_faces(unknown_encodings) ==
    IF unknown_encodings = <<>> THEN <<"no_people_found">> ELSE <<>>

\* Lines 163-184: from the decoded frame to the returned list.
analyze_frame(names, encodings, unknown_encodings, tol) ==
    match_faces(names, encodings, unknown_encodings, tol, 1)
      \o no_faces(unknown_encodings)

Returned(labels) == [raised |-> FALSE, labels |-> labels]
Raised == [raised |-> TRUE, labels |-> <<>>]

\* The whole call.  A video whose first frame cannot be read, and an image
\* that is gone, return the empty list (lines 139-155); any other failure to
\* load an image is not caught.
analyze_file(F, file_path, names, encodings, tol) ==
    IF Lower(Leaf(file_path).ext) \in Range(VIDEO_EXTENSIONS)
    THEN IF F[file_path].kind # "file" \/ F[file_path].dec = "bad"
         THEN Returned(<<>>)
         ELSE Returned(analyze_frame(names, encodings, F[file_path].faces, tol))
    ELSE IF F[file_path].kind = "none" THEN Returned(<<>>)
    ELSE IF F[file_path].kind = "dir" \/ F[file_path].dec = "bad" THEN Raised
    ELSE Returned(analyze_frame(names, encodings, F[file_path].faces, tol))

(***************************************************************************)
(* analyze_file applied to one file, for every frame, index and tolerance  *)
(* within the bounds.                                                      *)
(***************************************************************************)
PersonNames == {"alice", "bob"}

SeqsUpTo(S, n) == UNION {[1..k -> S] : k \in 0..n}

Tolerances == 0..MaxEnc

Frames == {FileEntry(1, f) : f \in SeqsUpTo(1..MaxEnc, MaxFaces)}
            \cup {BadFileEntry(1), NoEntry}

InitMatch ==
    /\ \E e \in Frames :
           fs = [p \in Paths |-> IF p = InDir THEN DirEntry
                                 ELSE IF p = GroupJpg THEN e ELSE NoEntry]
    /\ \E k \in 0..MaxKnown :
           /\ known_names \in [1..k -> PersonNames]
           /\ known_face_encodings \in [1..k -> 1..MaxEnc]
    /\ tolerance \in Tolerances
    /\ recognized_people = <<>>
    /\ last_op = "init"
    /\ cache = NoCache
    /\ log = <<>>
    /\ cache_written = FALSE
    /\ prev_index = NoIndex
    /\ changes = 0
    /\ before = NoCache
    /\ NoBatch

Analyze ==
    LET r == analyze_file(fs, GroupJpg, known_names, known_face_encodings, tolerance)
    IN /\ last_op = "init"
       /\ recognized_people' = r.labels
       /\ last_op' = IF r.raised THEN "raised" ELSE "analyze_file"
       /\ UNCHANGED <<fs, cache, known_names, known_face_encodings, log,
                      cache_written, prev_index, changes, before, tolerance,
                      batchvars>>

NextMatch == Analyze

SpecMatch == InitMatch /\ [][NextMatch]_vars

\* The frame analyze_file decoded, and whether it returned a list for it.
unknown_encodings == fs[GroupJpg].faces
Analyzed == last_op = "analyze_file" /\ fs[GroupJpg].kind = "file"

Count(seq, x) == Cardinality({i \in 1..Len(seq) : seq[i] = x})

\* The index entries within the tolerance of a face.
Within(face, tol) ==
    {i \in 1..Len(known_face_encodings) :
         Abs(known_face_encodings[i] - face) <= tol}

KnownLabel(l) == l \in Range(known_names) \/ l = "unknown_person"

\* C6 as claimed: a frame with N >= 1 faces yields exactly N labels, each a
\* known name or "unknown_person", and "no_people_found" never appears
\* together with a name label.
C6_ExactlyOneLabelPerFace ==
    Analyzed =>
        /\ Len(unknown_encodings) >= 1 =>
               /\ Len(recognized_people) = Len(unknown_encodings)
               /\ \A i \in 1..Len(recognized_people) : KnownLabel(recognized_people[i])
        /\ "no_people_found" \in Range(recognized_people) =>
               Range(recognized_people) = {"no_people_found"}

\* C6 as amended: a frame with N >= 1 faces yields, for each face, either
\* "unknown_person" once (no index entry within the tolerance) or the name of
\* every index entry within the tolerance; so at least N labels, exactly as
\* many "unknown_person" as there are faces without a match, each label a
\* known name or "unknown_person"; and "no_people_found" never appears
\* together with another label.
C6_OneOrMoreLabelsPerFace ==
    Analyzed =>
        /\ Len(unknown_encodings) >= 1 =>
               /\ Len(recognized_people) >= Len(unknown_encodings)
               /\ \A i \in 1..Len(recognized_people) : KnownLabel(recognized_people[i])
               /\ Count(recognized_people, "unknown_person")
                    = Cardinality({i \in 1..Len(unknown_encodings) :
                                       Within(unknown_encodings[i], tolerance) = {}})
               /\ \A n \in PersonNames :
                      Count(recognized_people, n)
                        = Cardinality({ij \in (1..Len(unknown_encodings))
                                                \X (1..Len(known_names)) :
                                           /\ known_names[ij[2]] = n
                                           /\ ij[2] \in Within(unknown_encodings[ij[1]],
                                                               tolerance)})
        /\ "no_people_found" \in Range(recognized_people) =>
               recognized_people = <<"no_people_found">>

\* A frame with two faces, one of them within the tolerance of two entries of
\* the index and one of none, has been analysed.
C6_Witness ==
    /\ Analyzed
    /\ Len(unknown_encodings) = 2
    /\ Len(recognized_people) = 3
    /\ "unknown_person" \in Range(recognized_people)

\* C7: for a fixed index and face, the names matched at a tolerance are among
\* the names matched at any wider tolerance.
Matched(face, tol) ==
    Range(match_face(known_names, known_face_encodings, face, tol))
      \ {"unknown_person"}

C7_ToleranceIsMonotonic ==
    \A i \in 1..Len(unknown_encodings) :
        \A t1 \in Tolerances, t2 \in Tolerances :
            t1 <= t2 => Matched(unknown_encodings[i], t1)
                          \subseteq Matched(unknown_encodings[i], t2)

\* A face analysed at tolerance 0, where it matches one name, that matches
\* two names at tolerance 1.
C7_Witness ==
    /\ Analyzed
    /\ Len(unknown_encodings) = 1
    /\ tolerance = 0
    /\ Range(recognized_people) = Matched(unknown_encodings[1], 0)
    /\ Cardinality(Matched(unknown_encodings[1], 0)) = 1
    /\ Cardinality(Matched(unknown_encodings[1], 1)) = 2

\* C11: a frame with N faces, none within the tolerance of an index entry,
\* yields "unknown_person" N times; for N >= 1 the result is nothing but
\* these N labels.
NoneWithin ==
    \A i \in 1..Len(unknown_encodings) :
        Within(unknown_encodings[i], tolerance) = {}

C11_UnknownOncePerUnmatchedFace ==
    (Analyzed /\ NoneWithin) =>
        /\ Count(recognized_people, "unknown_person") = Len(unknown_encodings)
        /\ Len(unknown_encodings) >= 1 =>
               recognized_people =
                   [i \in 1..Len(unknown_encodings) |-> "unknown_person"]

\* Two faces analysed against an index of two entries, neither face within
\* the tolerance of either.
C11_Witness ==
    /\ Analyzed
    /\ NoneWithin
    /\ Len(unknown_encodings) = 2
    /\ Len(known_names) = 2
    /\ recognized_people = <<"unknown_person", "unknown_person">>

\* C10: a frame with no detected face yields exactly <<"no_people_found">>.
C10_NoFacesNoPeople ==
    (Analyzed /\ unknown_encodings = <<>>) =>
        recognized_people = <<"no_people_found">>

\* A frame without faces analysed against a non-empty index.
C10_Witness ==
    /\ Analyzed
    /\ unknown_encodings = <<>>
    /\ known_names # <<>>
    /\ tolerance > 0

(***************************************************************************)
(* scan_files called again and again on one list, as main does at lines    *)
(* 292 and 299, over a directory tree that does not change.                *)
(***************************************************************************)
\* The files of the tree that exist or not; the directories in, in/sub and
\* in/sub/deep always exist.
TreeFiles == {GroupJpg, PartyPng, UpperJpg, NotesTxt, NestedPng, FarJpg}
TreeDirs == {InDir, SubDir, DeepDir}
Tree(present) ==
    [p \in Paths |-> IF p \in TreeDirs THEN DirEntry
                     ELSE IF p \in present THEN FileEntry(1, <<>>)
                     ELSE NoEntry]

ScanArguments == {<<InDir>>, <<SubDir>>, <<GroupJpg, NotesTxt>>, <<InDir, GroupJpg>>}

InitScan ==
    /\ \E present \in SUBSET TreeFiles : fs = Tree(present)
    /\ files \in ScanArguments
    /\ scans = <<>>
    /\ paths = <<>>
    /\ metadata = [p \in InputFiles |-> NoTags]
    /\ exif_calls = <<>>
    /\ futures = <<>>
    /\ pc = "start"
    /\ pos = 1
    /\ error = "none"
    /\ handled = <<>>
    /\ finish_order = <<>>
    /\ tolerance = 0
    /\ recognized_people = <<>>
    /\ cache = NoCache
    /\ known_names = <<>>
    /\ known_face_encodings = <<>>
    /\ log = <<>>
    /\ cache_written = FALSE
    /\ last_op = "init"
    /\ prev_index = NoIndex
    /\ changes = 0
    /\ before = NoCache

\* One call scan_files(files): the caller's list is left extended.
ScanFiles ==
    LET scanned == scan_files(fs, files)
    IN /\ Len(scans) < MaxScans
       /\ files' = scanned.files
       /\ paths' = scanned.filenames
       /\ scans' = Append(scans, scanned.filenames)
       /\ last_op' = "scan_files"
       /\ UNCHANGED <<fs, cache, known_names, known_face_encodings, log,
                      cache_written, prev_index, changes, before, tolerance,
                      recognized_people, metadata, exif_calls, futures, pc,
                      pos, error, handled, finish_order>>

NextScan == ScanFiles

SpecScan == InitScan /\ [][NextScan]_vars

(***************************************************************************)
(* Lines 306-325 with their effect: the log, and the exiftool invocation   *)
(* when add_metadata is called.  subprocess.run(check=True) raises when    *)
(* exiftool fails, as it does for a file that is gone; nothing catches it. *)
(***************************************************************************)
Handle(file_path, people, k) ==
    LET r == reconcile(file_path, people)
    IN /\ log' = r.log
       /\ IF r.write
          THEN \E ok \in BOOLEAN :
                   /\ fs[file_path].kind # "file" => ~ok
                   /\ exif_calls' = Append(exif_calls,
                          Call(file_path, add_metadata(r.people),
                               metadata[file_path], ok, k))
                   /\ metadata' =
                          IF ok
                          THEN [metadata EXCEPT ![file_path] =
                                    exiftool_write(@,
                                        add_metadata(r.people).hierarchical_metadata,
                                        add_metadata(r.people).metadata)]
                          ELSE metadata
                   /\ error' = IF ok THEN error ELSE "exiftool"
          ELSE UNCHANGED <<exif_calls, metadata, error>>

(***************************************************************************)
(* The loop body applied again and again to one file with one result, as   *)
(* repeated runs of the program over an unchanged input do.                *)
(***************************************************************************)
Labels == PersonNames \cup {"unknown_person", "no_people_found", "warning:"}

InitReconcile ==
    /\ fs = [p \in Paths |-> IF p = InDir THEN DirEntry
                             ELSE IF p = GroupJpg THEN FileEntry(1, <<>>)
                             ELSE NoEntry]
    /\ recognized_people \in SeqsUpTo(Labels, MaxLabels)
    /\ tolerance = 0
    /\ cache = NoCache
    /\ known_names = <<>>
    /\ known_face_encodings = <<>>
    /\ log = <<>>
    /\ cache_written = FALSE
    /\ last_op = "init"
    /\ prev_index = NoIndex
    /\ changes = 0
    /\ before = NoCache
    /\ NoBatch

ReconcileOnce ==
    /\ pos <= MaxRuns
    /\ Handle(GroupJpg, recognized_people, pos)
    /\ pos' = pos + 1
    /\ last_op' = "reconcile"
    /\ UNCHANGED <<fs, cache, known_names, known_face_encodings, cache_written,
                   prev_index, changes, before, tolerance, recognized_people,
                   files, futures, pc, paths, handled, finish_order,
                   scans>>

NextReconcile == ReconcileOnce

SpecReconcile == InitReconcile /\ [][NextReconcile]_vars

(***************************************************************************)
(* main, lines 272-331, with the worker processes of the pool.             *)
(***************************************************************************)
Future(file_path) == [file |-> file_path, state |-> "pending", labels |-> <<>>]

Finished(f) == f.state \in {"done", "raised"}

idxvars == <<cache, known_names, known_face_encodings, cache_written,
             prev_index, changes, before>>

\* The entries the input files of the model can have.
GroupStates == {FileEntry(1, <<1>>), FileEntry(1, <<1, 3>>), BadFileEntry(1)}
PartyStates == {FileEntry(1, <<2>>), FileEntry(1, <<3>>), FileEntry(1, <<>>)}
ClipStates == {NoEntry, FileEntry(1, <<2>>), BadFileEntry(1)}
Arguments == {<<>>, <<InDir>>, <<GroupJpg, PartyPng>>}

Init ==
    /\ \E g \in GroupStates, q \in PartyStates, c \in ClipStates :
           fs = [p \in Paths |->
                    CASE p \in {RefDir, InDir} -> DirEntry
                      [] p = AliceJpg -> FileEntry(1, <<1>>)
                      [] p = BobJpg -> FileEntry(1, <<2>>)
                      [] p = GroupJpg -> g
                      [] p = PartyPng -> q
                      [] p = ClipMp4 -> c
                      [] OTHER -> NoEntry]
    /\ cache \in {NoCache, BadCache}
    /\ tolerance \in {0, 1}
    /\ files \in Arguments
    /\ known_names = <<>>
    /\ known_face_encodings = <<>>
    /\ log = <<>>
    /\ cache_written = FALSE
    /\ last_op = "init"
    /\ prev_index = NoIndex
    /\ changes = 0
    /\ before = NoCache
    /\ recognized_people = <<>>
    /\ metadata = [p \in InputFiles |-> NoTags]
    /\ exif_calls = <<>>
    /\ futures = <<>>
    /\ pc = "start"
    /\ pos = 1
    /\ paths = <<>>
    /\ error = "none"
    /\ handled = <<>>
    /\ finish_order = <<>>
    /\ scans = <<>>

\* Lines 284-286: no files supplied.
NoFiles ==
    /\ pc = "start"
    /\ files = <<>>
    /\ pc' = "done"
    /\ log' = <<[msg |-> "No files supplied to recognize!", count |-> 0,
                 file |-> <<>>]>>
    /\ last_op' = "main"
    /\ UNCHANGED <<fs, idxvars, tolerance, recognized_people, metadata,
                   exif_calls, files, futures, pos, paths, error,
                   handled, finish_order, scans>>

\* Line 288 raising: the cache cannot be unpickled and main ends there.
IndexFails ==
    /\ pc = "start"
    /\ files # <<>>
    /\ scan_known_people(fs, cache, RefDir).raised
    /\ pc' = "done"
    /\ error' = "cache"
    /\ last_op' = "main"
    /\ UNCHANGED <<fs, idxvars, log, tolerance, recognized_people, metadata,
                   exif_calls, files, futures, pos, paths,
                   handled, finish_order, scans>>

\* Lines 288-297: build the index, scan the arguments, submit one
\* analyze_file per file.
Submit ==
    LET idx == scan_known_people(fs, cache, RefDir)
        scanned == scan_files(fs, files)
    IN /\ pc = "start"
       /\ files # <<>>
       /\ ~idx.raised
       /\ known_names' = idx.names
       /\ known_face_encodings' = idx.encodings
       /\ before' = cache
       /\ cache' = idx.cache
       /\ cache_written' = idx.written
       /\ log' = idx.log
       /\ files' = scanned.files
       /\ futures' = [k \in 1..Len(scanned.filenames) |-> Future(scanned.filenames[k])]
       /\ scans' = <<scanned.filenames>>
       /\ pc' = "submitted"
       /\ last_op' = "main"
       /\ UNCHANGED <<fs, prev_index, changes, tolerance, recognized_people,
                      metadata, exif_calls, pos, paths, error,
                      handled, finish_order>>

\* A worker process takes the oldest pending call.
WorkerStart ==
    \E k \in 1..Len(futures) :
        /\ pc \in {"submitted", "collect", "shutdown"}
        /\ futures[k].state = "pending"
        /\ \A j \in 1..(k - 1) : futures[j].state # "pending"
        /\ Cardinality({j \in 1..Len(futures) : futures[j].state = "running"}) < Workers
        /\ futures' = [futures EXCEPT ![k].state = "running"]
        /\ UNCHANGED <<fs, idxvars, log, last_op, tolerance, recognized_people,
                       metadata, exif_calls, files, pc, pos, paths, error,
                   handled, finish_order, scans>>

\* A worker process runs analyze_file and the future holds what it returned
\* or that it raised.
WorkerFinish ==
    \E k \in 1..Len(futures) :
        LET r == analyze_file(fs, futures[k].file, known_names,
                              known_face_encodings, tolerance)
        IN /\ pc \in {"submitted", "collect", "shutdown"}
           /\ futures[k].state = "running"
           /\ futures' = [futures EXCEPT
                             ![k].state = IF r.raised THEN "raised" ELSE "done",
                             ![k].labels = r.labels]
           /\ finish_order' = Append(finish_order, k)
           /\ UNCHANGED <<fs, idxvars, log, last_op, tolerance, recognized_people,
                          metadata, exif_calls, files, pc, pos, paths, error,
                          handled, scans>>

\* An input file is deleted while the batch runs.
RemoveInput ==
    \E p \in InputFiles :
        /\ pc \in {"submitted", "collect"}
        /\ fs[p].kind = "file"
        /\ \A q \in InputFiles : fs[q].kind = "file" \/ q = ClipMp4
        /\ fs' = [fs EXCEPT ![p] = NoEntry]
        /\ UNCHANGED <<idxvars, log, last_op, tolerance, recognized_people,
                       metadata, exif_calls, files, futures, pc, pos, paths, error,
                   handled, finish_order, scans>>

\* Line 299: the second scan_files(files), over the list the first extended.
BeginCollect ==
    LET scanned == scan_files(fs, files)
    IN /\ pc = "submitted"
       /\ paths' = scanned.filenames
       /\ scans' = Append(scans, scanned.filenames)
       /\ files' = scanned.files
       /\ pc' = "collect"
       /\ UNCHANGED <<fs, idxvars, log, last_op, tolerance, recognized_people,
                      metadata, exif_calls, futures, pos, error,
                      handled, finish_order>>

InLoop == pc = "collect" /\ pos <= Len(futures) /\ pos <= Len(paths)

\* Mutant of nth_future: the k-th future to finish, as as_completed yields.
nth_completed(futs, k) ==
    IF k <= Len(finish_order) THEN futs[finish_order[k]] ELSE futs[k]

\* Line 299: the k-th pair of zip(futures, ...) holds the k-th future
\* submitted.
nth_future(futs, k) == futs[k]

\* Line 300: future.result() blocks until the call has finished, then
\* returns what it returned or raises what it raised.
result(f) == [ready |-> Finished(f), raised |-> f.state = "raised",
              labels |-> f.labels]

\* What main has done with one pair of the zip.
Pair(k, f, file_path) ==
    [pos |-> k, analysed |-> f.file, labels |-> f.labels, path |-> file_path,
     wrote |-> reconcile(file_path, f.labels).write,
     unfinished |-> {j \in 1..Len(futures) : ~Finished(futures[j])}]

\* Line 300 raising: future.result() re-raises what analyze_file raised, and
\* the exception leaves the loop.
CollectRaised ==
    /\ InLoop
    /\ result(nth_future(futures, pos)).ready
    /\ result(nth_future(futures, pos)).raised
    /\ error' = "worker"
    /\ pc' = "shutdown"
    /\ UNCHANGED <<fs, idxvars, log, last_op, tolerance, recognized_people,
                   metadata, exif_calls, files, futures, pos, paths,
                   handled, finish_order, scans>>

\* Lines 300-331 for one pair of zip(futures, paths).
CollectResult ==
    LET r == result(nth_future(futures, pos))
    IN /\ InLoop
       /\ r.ready
       /\ ~r.raised
       /\ recognized_people' = r.labels
       /\ Handle(paths[pos], r.labels, pos)
       /\ handled' = Append(handled, Pair(pos, nth_future(futures, pos), paths[pos]))
       /\ pos' = IF error' = "none" THEN pos + 1 ELSE pos
       /\ pc' = IF error' = "none" THEN "collect" ELSE "shutdown"
       /\ UNCHANGED <<fs, idxvars, last_op, tolerance, files, futures, paths,
                      finish_order, scans>>

\* The zip is exhausted.
EndLoop ==
    /\ pc = "collect"
    /\ ~(pos <= Len(futures) /\ pos <= Len(paths))
    /\ pc' = "shutdown"
    /\ UNCHANGED <<fs, idxvars, log, last_op, tolerance, recognized_people,
                   metadata, exif_calls, files, futures, pos, paths, error,
                   handled, finish_order, scans>>

\* Line 290: leaving the with block waits for every submitted call.
Exit ==
    /\ pc = "shutdown"
    /\ \A k \in 1..Len(futures) : Finished(futures[k])
    /\ pc' = "done"
    /\ UNCHANGED <<fs, idxvars, log, last_op, tolerance, recognized_people,
                   metadata, exif_calls, files, futures, pos, paths, error,
                   handled, finish_order, scans>>

Next ==
    \/ NoFiles
    \/ IndexFails
    \/ Submit
    \/ WorkerStart
    \/ WorkerFinish
    \/ RemoveInput
    \/ BeginCollect
    \/ CollectRaised
    \/ CollectResult
    \/ EndLoop
    \/ Exit

Spec == Init /\ [][Next]_vars

(***************************************************************************)
(* Properties of the reconciliation, under SpecReconcile.                  *)
(***************************************************************************)
Reconciled == pos > 1

NamesOf(people) == LET IsName(l) == l \in PersonNames IN SelectSeq(people, IsName)

\* C3: reconciling the same file again with the same result issues no
\* further write: exiftool is invoked only when one of the values to add is
\* not yet among the file's keywords.
C3_NoWriteWhenAlreadyTagged ==
    \A k \in 1..Len(exif_calls) :
        \E v \in Range(exif_calls[k].metadata) : v \notin Range(exif_calls[k].had)

\* C8: no exiftool invocation for a result that holds "warning:", is empty,
\* holds only "no_people_found", or holds only "unknown_person" labels.
NothingToWrite(people) ==
    \/ "warning:" \in Range(people)
    \/ people = <<>>
    \/ Range(people) = {"no_people_found"}
    \/ Range(people) = {"unknown_person"}

C8_NoWriteWithoutNames ==
    NothingToWrite(recognized_people) =>
        /\ exif_calls = <<>>
        /\ metadata[GroupJpg] = NoTags

\* A result of two "unknown_person" labels has been reconciled.
C8_Witness ==
    /\ Reconciled
    /\ recognized_people = <<"unknown_person", "unknown_person">>
    /\ log # <<>>

\* C9: for a result of names and "unknown_person" labels, every exiftool
\* invocation carries the names and Personen as flat values and Personen|name
\* and Personen as hierarchical values, "unknown_person" is in no value, and
\* the warning logged counts the "unknown_person" labels.
C9_OnlyRecognizedNamesAreWritten ==
    LET names == NamesOf(recognized_people)
        unknown == Occurrences(recognized_people, "unknown_person")
    IN (/\ Reconciled
        /\ names # <<>>
        /\ "no_people_found" \notin Range(recognized_people)
        /\ "warning:" \notin Range(recognized_people)) =>
           /\ exif_calls # <<>>
           /\ \A k \in 1..Len(exif_calls) :
                  /\ exif_calls[k].file = GroupJpg
                  /\ exif_calls[k].metadata = names \o <<"Personen">>
                  /\ exif_calls[k].hierarchical_metadata =
                         [i \in 1..Len(names) |-> <<"Personen", names[i]>>]
                           \o <<<<"Personen">>>>
           /\ "unknown_person" \notin Range(metadata[GroupJpg].Keywords)
                                        \cup Range(metadata[GroupJpg].Subject)
           /\ \A h \in Range(metadata[GroupJpg].HierarchicalSubject) :
                  "unknown_person" \notin Range(h)
           /\ unknown # 0 => /\ Len(log) = 1
                             /\ log[1].msg = "unknown person(s) detected"
                             /\ log[1].count = unknown
           /\ unknown = 0 => log = <<>>

\* Scenario B: <<"bob", "unknown_person">> has been reconciled and exiftool
\* has written the tags.
C9_Witness ==
    /\ Reconciled
    /\ recognized_people = <<"bob", "unknown_person">>
    /\ exif_calls # <<>>
    /\ exif_calls[1].ok
    /\ metadata[GroupJpg].Keywords = <<"bob", "Personen">>

(***************************************************************************)
(* Properties of the orchestrator, under Spec.                             *)
(***************************************************************************)
Done == pc = "done"

\* C4: when analyze_file raises for one file, main does not end with that
\* exception, and every file of the batch is still analysed and reconciled.
C4_WorkerFailureIsIsolated ==
    (Done /\ \E k \in 1..Len(futures) : futures[k].state = "raised") =>
        /\ error = "none"
        /\ pos > Len(futures)

\* C5: when exiftool fails for one file, every other file whose result names
\* a recognized person still gets its exiftool invocation.
C5_WriteFailureIsIsolated ==
    (Done /\ \E c \in Range(exif_calls) : ~c.ok) =>
        \A k \in 1..Len(futures) :
            (futures[k].state = "done"
               /\ reconcile(futures[k].file, futures[k].labels).write) =>
                \E c \in Range(exif_calls) : c.pos = k

\* C12: whatever order the workers finish in, the i-th result main handles is
\* the result of the i-th file submitted, the i-th file of the scanned list.
C12_ResultsInFileOrder ==
    \A i \in 1..Len(handled) :
        /\ handled[i].pos = i
        /\ handled[i].analysed = futures[i].file
        /\ handled[i].labels = futures[i].labels
        /\ \A j \in 1..(i - 1) : futures[j].file # futures[i].file

\* The second future finished first, and main still handled the first
\* file's result and then the second's.
C12_Witness ==
    /\ Len(handled) >= 2
    /\ finish_order[1] = 2
    /\ handled[1].analysed = GroupJpg
    /\ handled[2].analysed = PartyPng

\* C13 as stated: no exiftool write for a file while the analysis of another
\* file of the batch is pending or running.
C13_WritesAfterAllResults ==
    \A i \in 1..Len(handled) :
        handled[i].wrote => handled[i].unfinished = {}

\* C13: an exiftool write for the k-th file is made only when the analyses
\* of the first k files have finished (those of later files may be pending
\* or running), and the writes are made one after the other in file order.
C13_WritesAfterOwnAndEarlierResults ==
    /\ \A i \in 1..Len(handled) :
           handled[i].wrote =>
               \A j \in handled[i].unfinished : j > handled[i].pos
    /\ \A a, b \in 1..Len(exif_calls) :
           a < b => exif_calls[a].pos < exif_calls[b].pos

\* A write was made for the first file while a later analysis had not
\* finished, and a second write followed it.
C13_Witness ==
    /\ Len(handled) >= 2
    /\ handled[1].wrote
    /\ handled[1].unfinished # {}
    /\ Len(exif_calls) >= 2

\* C20: the path a result is reconciled against is the path that was
\* analysed to produce it, also when a file is deleted between the two
\* scan_files calls.
C20_ResultReconciledAgainstItsOwnPath ==
    \A i \in 1..Len(handled) : handled[i].path = handled[i].analysed

(***************************************************************************)
(* Properties of the scanner, under SpecScan.                              *)
(***************************************************************************)
Below(d, p) == Len(p) > Len(d) /\ SubSeq(p, 1, Len(d)) = d

Supported(p) == Lower(Leaf(p).ext) \in Range(ALLOWED_EXTENSIONS)

\* The regular files with a supported extension that the list names or that
\* lie at any depth below a directory the list names.
SupportedFiles(F, file_list) ==
    {p \in Paths :
        /\ isfile(F, p)
        /\ Supported(p)
        /\ \E i \in 1..Len(file_list) :
               \/ file_list[i] = p
               \/ isdir(F, file_list[i]) /\ Below(file_list[i], p)}

\* C14: a second scan_files call on the same list, with the filesystem
\* unchanged, returns the sequence the first call returned.
C14_ScanFilesIsIdempotent ==
    Len(scans) >= 2 => scans[2] = scans[1]

\* C15: scan_files returns exactly the existing regular files with a
\* supported extension, compared case-insensitively, at any depth below an
\* input directory; no directory and no file of another extension.
C15_ExactlyTheSupportedFiles ==
    Len(scans) >= 1 => Range(scans[1]) = SupportedFiles(fs, files)

(***************************************************************************)
(* Further properties of the index builder, under SpecIndex.               *)
(***************************************************************************)
Ran == last_op \in {"scan_known_people", "raised"}

Distinct(seq) == \A i, j \in 1..Len(seq) : seq[i] = seq[j] => i = j

\* C16: a build that finds cache.pkl missing or unreadable does not fail and
\* returns what a build without a cache returns.
C16_UnusableCacheIsNoCache ==
    (Ran /\ before.state # "ok") =>
        /\ last_op # "raised"
        /\ known_names = scan_known_people(fs, NoCache, RefDir).names
        /\ known_face_encodings = scan_known_people(fs, NoCache, RefDir).encodings

\* C17: a reference file encoded with more than one face gets an entry
\* under its name with the first encoding and the file's size.
C17_FirstFaceOfManyIsIndexed ==
    Built =>
        \A p \in Encoded :
            Len(fs[p].faces) > 1 =>
                \E i \in 1..Len(known_names) :
                    /\ known_names[i] = Leaf(p).base
                    /\ known_face_encodings[i] = fs[p].faces[1]
                    /\ cache.sizes[i] = fs[p].size

\* C18: the index and the cache hold at most one entry per name, and for a
\* reference file encoded again the entry found under its name has the new
\* encoding and the file's size.
C18_OneEntryPerName ==
    Built =>
        /\ Distinct(known_names)
        /\ Distinct(cache.names)
        /\ \A p \in Encoded :
               Len(fs[p].faces) = 1 =>
                   LET i == index_of(known_names, Leaf(p).base)
                   IN /\ i # 0
                      /\ known_face_encodings[i] = fs[p].faces[1]
                      /\ cache.sizes[i] = fs[p].size

\* C19: after a build every name of the returned index and of cache.pkl is
\* the name of a reference file that exists.
C19_RemovedReferenceIsDropped ==
    Built =>
        \A n \in Range(known_names) \cup Range(cache.names) :
            \E p \in LiveRefs : Leaf(p).base = n

====
